---- MODULE Spec2Model ----
(***************************************************************************)
(* Model of the demo scripts of the repository:                            *)
(*   workspace/fibonacci.py   the Fibonacci sequence generator             *)
(*   test_interactive.py      console quiz with an age retry loop          *)
(*   test_input.py            console quiz with one-shot numeric parsing   *)
(* Each script is a sequential program; its position is a pc variable that *)
(* names the source line about to execute.  Strings typed by the user and  *)
(* printed by the scripts are sequences of one-character strings, so that  *)
(* int(), float(), str() are modelled by what they do to the characters.   *)
(***************************************************************************)
EXTENDS Integers, Sequences, FiniteSets

\* ---------------------------------------------------------------- bounds
MaxN == 10       \* largest count passed to fibonacci
MaxNeg == 2      \* most negative count passed to fibonacci is -MaxNeg
MaxCalls == 3    \* number of calls to fibonacci in one run
MaxRetries == 2  \* failed age inputs the user types in test_interactive.py

NRange == (0 - MaxNeg)..MaxN

\* ------------------------------------------------------------- variables
VARIABLES
  \* fibonacci.py
  pc,         \* "idle" or the line of fibonacci() about to run
  n,          \* the argument of the call in progress
  fib_list,   \* local list
  a, b,       \* local pair
  iters,      \* executions of the loop body in the call in progress
  calls,      \* the completed calls: <<[n, result, iters], ...>>
  \* test_interactive.py
  ti_pc,             \* the line about to run, or "done"
  ti_name,           \* name
  ti_age,            \* age: <<>> while unbound, <<v>> once assigned
  ti_birth_year,     \* birth_year: <<>> while unbound, <<v>> once assigned
  ti_favorite_color, \* favorite_color
  ti_stdin,          \* the lines input() has returned so far
  ti_out,            \* what has been written to the console so far
  \* test_input.py
  tp_pc,             \* the line about to run, or "done"
  tp_name,           \* name
  tp_age,            \* age: <<>> while unbound, <<v>> once assigned
  tp_num1,           \* num1, in halves: <<>> while unbound
  tp_num2,           \* num2, in halves: <<>> while unbound
  tp_result,         \* result, in halves: <<>> while unbound
  tp_choice,         \* choice
  tp_stdin,          \* the lines input() has returned so far
  tp_out             \* what has been written to the console so far

fibvars == <<pc, n, fib_list, a, b, iters, calls>>
tivars == <<ti_pc, ti_name, ti_age, ti_birth_year, ti_favorite_color,
            ti_stdin, ti_out>>
tpvars == <<tp_pc, tp_name, tp_age, tp_num1, tp_num2, tp_result, tp_choice,
            tp_stdin, tp_out>>
vars == <<fibvars, tivars, tpvars>>

\* ------------------------------------------------- strings and parsing
\* A string is a sequence of one-character strings.
Digits == <<"0", "1", "2", "3", "4", "5", "6", "7", "8", "9">>

IsDigit(c) == \E i \in 1..10 : Digits[i] = c

DigitVal(c) == (CHOOSE i \in 1..10 : Digits[i] = c) - 1

AllDigits(s) == \A i \in 1..Len(s) : IsDigit(s[i])

\* Value of a string of decimal digits (0 for the empty string).
RECURSIVE DigitsVal(_)
DigitsVal(s) ==
  IF s = <<>> THEN 0
  ELSE 10 * DigitsVal(SubSeq(s, 1, Len(s) - 1)) + DigitVal(s[Len(s)])

\* str.strip() as int() and float() apply it: drop blanks at both ends.
RECURSIVE Strip(_)
Strip(s) ==
  IF s = <<>> THEN s
  ELSE IF s[1] = " " THEN Strip(Tail(s))
  ELSE IF s[Len(s)] = " " THEN Strip(SubSeq(s, 1, Len(s) - 1))
  ELSE s

HasSign(s) == s # <<>> /\ s[1] \in {"-", "+"}

Unsigned(s) == IF HasSign(s) THEN Tail(s) ELSE s

SignOf(s) == IF s # <<>> /\ s[1] = "-" THEN 0 - 1 ELSE 1

\* int(s): <<v>> when s is blanks, an optional sign and one or more digits;
\* <<>> when int() raises ValueError.
IntParse(s) ==
  LET t == Strip(s)
      d == Unsigned(t)
  IN  IF d # <<>> /\ AllDigits(d) THEN <<SignOf(t) * DigitsVal(d)>> ELSE <<>>

\* Position of the first "." of s, or Len(s) + 1.
DotPos(s) ==
  IF \E i \in 1..Len(s) : s[i] = "."
  THEN CHOOSE i \in 1..Len(s) :
         s[i] = "." /\ \A j \in 1..(i - 1) : s[j] # "."
  ELSE Len(s) + 1

\* The fraction digits as a number of halves: ".0" is 0, ".5" is 1.
FracHalves(f) == IF f # <<>> /\ f[1] = "5" THEN 1 ELSE 0

\* float(s): <<h>>, the value counted in halves, when s is blanks, an
\* optional sign and digits with at most one "." among them (at least one
\* digit); <<>> when float() raises ValueError.  Exact for the inputs of
\* Inputs, whose fractions are .0 or .5.
FloatParse(s) ==
  LET t == Strip(s)
      d == Unsigned(t)
      k == DotPos(d)
      ip == SubSeq(d, 1, k - 1)
      fp == SubSeq(d, k + 1, Len(d))
  IN  IF AllDigits(ip) /\ AllDigits(fp) /\ (ip # <<>> \/ fp # <<>>)
      THEN <<SignOf(t) * (2 * DigitsVal(ip) + FracHalves(fp))>>
      ELSE <<>>

\* str(i) of a non-negative int.
RECURSIVE NatStr(_)
NatStr(i) ==
  IF i < 10 THEN <<Digits[i + 1]>>
  ELSE NatStr(i \div 10) \o <<Digits[(i % 10) + 1]>>

\* str(i) of an int, as an f-string renders {i}.
IntStr(i) == IF i < 0 THEN <<"-">> \o NatStr(0 - i) ELSE NatStr(i)

\* str(x) of a float given in halves, as an f-string renders {x}.
FloatStr(h) ==
  LET m == IF h < 0 THEN 0 - h ELSE h
      body == NatStr(m \div 2) \o <<".">> \o (IF m % 2 = 1 THEN <<"5">> ELSE <<"0">>)
  IN  IF h < 0 THEN <<"-">> \o body ELSE body

\* The lines the user types at a prompt.
Inputs ==
  { <<>>, <<"x">>, <<"7">>, <<"-", "5">>, <<" ", "4", "2", " ">>,
    <<"1", ".", "5">>, <<"1">>, <<"2">>, <<"3">> }

\* The lines the user types where the script only echoes them.
Names == { <<>>, <<"A", "l">> }

\* What datetime.now().year returns.
Years == { 2025, 2026 }

\* One console write: the text (of print or of the prompt of input) with
\* its {placeholders}, and the strings that fill them.
Line(text, args) == [text |-> text, args |-> args]

\* -------------------------------------------------------- fibonacci.py
\* The mathematical sequence F(0)=0, F(1)=1, F(k)=F(k-1)+F(k-2).
RECURSIVE F(_)
F(k) == IF k = 0 THEN 0 ELSE IF k = 1 THEN 1 ELSE F(k - 1) + F(k - 2)

FPrefix(k) == [i \in 1..k |-> F(i - 1)]

Max(x, y) == IF x >= y THEN x ELSE y

\* Before the first call: no frame exists; the locals hold placeholders that
\* lines 3-4 overwrite before any read.
InitFib ==
  /\ pc = "idle"
  /\ n = 0
  /\ fib_list = <<>>
  /\ a = 0
  /\ b = 0
  /\ iters = 0
  /\ calls = <<>>

\* A caller invokes fibonacci(m); line 12 does so with m = num_fibs.
Call(m) ==
  /\ pc = "idle"
  /\ Len(calls) < MaxCalls
  /\ n' = m
  /\ iters' = 0
  /\ pc' = "L3"
  /\ UNCHANGED <<fib_list, a, b, calls, tivars, tpvars>>

\* line 3: fib_list = []
L3 ==
  /\ pc = "L3"
  /\ fib_list' = <<>>
  /\ pc' = "L4"
  /\ UNCHANGED <<n, a, b, iters, calls, tivars, tpvars>>

L4Ones ==
  /\ pc = "L4"
  /\ a' = 1
  /\ b' = 1
  /\ pc' = "L5"
  /\ UNCHANGED <<n, fib_list, iters, calls, tivars, tpvars>>

L4Once ==
  /\ pc = "L4"
  /\ a' = IF calls = <<>> THEN 0 ELSE a
  /\ b' = IF calls = <<>> THEN 1 ELSE b
  /\ pc' = "L5"
  /\ UNCHANGED <<n, fib_list, iters, calls, tivars, tpvars>>

\* line 4: a, b = 0, 1
L4 ==
  /\ pc = "L4"
  /\ a' = 0
  /\ b' = 1
  /\ pc' = "L5"
  /\ UNCHANGED <<n, fib_list, iters, calls, tivars, tpvars>>

LoopCondLe == Len(fib_list) <= n

LoopCondNe == Len(fib_list) # n

\* line 5: the condition of the while loop
LoopCond == Len(fib_list) < n

\* line 5: while len(fib_list) < n
L5 ==
  /\ pc = "L5"
  /\ pc' = IF LoopCond THEN "L6" ELSE "L8"
  /\ UNCHANGED <<n, fib_list, a, b, iters, calls, tivars, tpvars>>

L6AppendB ==
  /\ pc = "L6"
  /\ fib_list' = Append(fib_list, b)
  /\ iters' = iters + 1
  /\ pc' = "L7"
  /\ UNCHANGED <<n, a, b, calls, tivars, tpvars>>

L6Prepend ==
  /\ pc = "L6"
  /\ fib_list' = <<a>> \o fib_list
  /\ iters' = iters + 1
  /\ pc' = "L7"
  /\ UNCHANGED <<n, a, b, calls, tivars, tpvars>>

L6Twice ==
  /\ pc = "L6"
  /\ fib_list' = fib_list \o <<a, a>>
  /\ iters' = iters + 1
  /\ pc' = "L7"
  /\ UNCHANGED <<n, a, b, calls, tivars, tpvars>>

\* line 6: fib_list.append(a); the loop body has started once more
L6 ==
  /\ pc = "L6"
  /\ fib_list' = Append(fib_list, a)
  /\ iters' = iters + 1
  /\ pc' = "L7"
  /\ UNCHANGED <<n, a, b, calls, tivars, tpvars>>

L7Sequential ==
  /\ pc = "L7"
  /\ a' = b
  /\ b' = b + b
  /\ pc' = "L5"
  /\ UNCHANGED <<n, fib_list, iters, calls, tivars, tpvars>>

\* line 7: a, b = b, a + b   (the right-hand side is evaluated first)
L7 ==
  /\ pc = "L7"
  /\ a' = b
  /\ b' = a + b
  /\ pc' = "L5"
  /\ UNCHANGED <<n, fib_list, iters, calls, tivars, tpvars>>

\* line 8: return fib_list
L8 ==
  /\ pc = "L8"
  /\ calls' = Append(calls, [n |-> n, result |-> fib_list, iters |-> iters])
  /\ pc' = "idle"
  /\ UNCHANGED <<n, fib_list, a, b, iters, tivars, tpvars>>

Body == L3 \/ L4 \/ L5 \/ L6 \/ L7 \/ L8

NextFib == (\E m \in NRange : Call(m)) \/ L3 \/ L4 \/ L5 \/ L6 \/ L7 \/ L8

\* -------------------------------------------------- test_interactive.py
InitInteractive ==
  /\ ti_pc = "L6"
  /\ ti_name = <<>>
  /\ ti_age = <<>>
  /\ ti_birth_year = <<>>
  /\ ti_favorite_color = <<>>
  /\ ti_stdin = <<>>
  /\ ti_out = <<>>

\* The failed age inputs typed so far.
TIRetries == Cardinality({i \in 2..Len(ti_stdin) : IntParse(ti_stdin[i]) = <<>>})

\* lines 6-11: the banner, then name = input(...) and the greeting
TIName(s) ==
  /\ ti_pc = "L6"
  /\ ti_stdin' = Append(ti_stdin, s)
  /\ ti_name' = s
  /\ ti_out' = ti_out \o
       << Line("Welcome to Interactive Python!", <<>>),
          Line("This program will ask for your input...", <<>>),
          Line("Enter your name: ", <<>>),
          Line("Hello, {name}! Nice to meet you.", <<s>>) >>
  /\ ti_pc' = "L16"
  /\ UNCHANGED <<ti_age, ti_birth_year, ti_favorite_color,
               fibvars, tpvars>>

TIAgeNoRetry(s) ==
  /\ ti_pc = "L16"
  /\ IntParse(s) = <<>> => TIRetries < MaxRetries
  /\ ti_stdin' = Append(ti_stdin, s)
  /\ IF IntParse(s) # <<>>
     THEN /\ ti_age' = IntParse(s)
          /\ ti_out' = Append(ti_out, Line("Enter your age: ", <<>>))
     ELSE /\ ti_age' = ti_age
          /\ ti_out' = ti_out \o
               << Line("Enter your age: ", <<>>),
                  Line("Please enter a valid number!", <<>>) >>
  /\ ti_pc' = "L23"
  /\ UNCHANGED <<ti_name, ti_birth_year, ti_favorite_color,
               fibvars, tpvars>>

\* lines 14-19: one turn of the while True loop: age = int(input(...)) and
\* break, or the ValueError message and another turn
TIAge(s) ==
  /\ ti_pc = "L16"
  /\ IntParse(s) = <<>> => TIRetries < MaxRetries
  /\ ti_stdin' = Append(ti_stdin, s)
  /\ IF IntParse(s) # <<>>
     THEN /\ ti_age' = IntParse(s)
          /\ ti_out' = Append(ti_out, Line("Enter your age: ", <<>>))
          /\ ti_pc' = "L23"
     ELSE /\ ti_age' = ti_age
          /\ ti_out' = ti_out \o
               << Line("Enter your age: ", <<>>),
                  Line("Please enter a valid number!", <<>>) >>
          /\ ti_pc' = "L16"
  /\ UNCHANGED <<ti_name, ti_birth_year, ti_favorite_color,
               fibvars, tpvars>>

\* lines 22-24: birth_year = datetime.now().year - age and its print;
\* reading age while it is unbound raises NameError and ends the script
TIBirthYear(y) ==
  /\ ti_pc = "L23"
  /\ IF ti_age = <<>>
     THEN /\ ti_pc' = "NameError"
          /\ UNCHANGED <<ti_birth_year, ti_out>>
     ELSE /\ ti_birth_year' = <<y - ti_age[1]>>
          /\ ti_out' = Append(ti_out,
               Line("You were probably born in {birth_year}",
                    <<IntStr(y - ti_age[1])>>))
          /\ ti_pc' = "L27"
  /\ UNCHANGED <<ti_name, ti_age, ti_favorite_color, ti_stdin,
               fibvars, tpvars>>

\* lines 27-28: favorite_color = input(...) and its print
TIColor(s) ==
  /\ ti_pc = "L27"
  /\ ti_stdin' = Append(ti_stdin, s)
  /\ ti_favorite_color' = s
  /\ ti_out' = ti_out \o
       << Line("What's your favorite color? ", <<>>),
          Line("Great choice! {favorite_color} is a beautiful color.", <<s>>) >>
  /\ ti_pc' = "L31"
  /\ UNCHANGED <<ti_name, ti_age, ti_birth_year,
               fibvars, tpvars>>

\* lines 31-37: the summary and the final message
TISummary ==
  /\ ti_pc = "L31"
  /\ ti_out' = ti_out \o
       << Line("Summary:", <<>>),
          Line("- Name: {name}", <<ti_name>>),
          Line("- Age: {age}", <<IntStr(ti_age[1])>>),
          Line("- Birth Year: {birth_year}", <<IntStr(ti_birth_year[1])>>),
          Line("- Favorite Color: {favorite_color}", <<ti_favorite_color>>),
          Line("\nInteractive program completed successfully!", <<>>) >>
  /\ ti_pc' = "done"
  /\ UNCHANGED <<ti_name, ti_age, ti_birth_year, ti_favorite_color, ti_stdin,
               fibvars, tpvars>>

NextInteractive ==
  \/ \E s \in Names : TIName(s)
  \/ \E s \in Inputs : TIAge(s)
  \/ \E y \in Years : TIBirthYear(y)
  \/ \E s \in Names : TIColor(s)
  \/ TISummary

\* -------------------------------------------------------- test_input.py
InitInput ==
  /\ tp_pc = "L6"
  /\ tp_name = <<>>
  /\ tp_age = <<>>
  /\ tp_num1 = <<>>
  /\ tp_num2 = <<>>
  /\ tp_result = <<>>
  /\ tp_choice = <<>>
  /\ tp_stdin = <<>>
  /\ tp_out = <<>>

Bar40 == "========================================"

\* lines 6-11: the banner, then name = input(...) and the greeting
TPName(s) ==
  /\ tp_pc = "L6"
  /\ tp_stdin' = Append(tp_stdin, s)
  /\ tp_name' = s
  /\ tp_out' = tp_out \o
       << Line("Interactive Input Test Program", <<>>),
          Line(Bar40, <<>>),
          Line("What's your name? ", <<>>),
          Line("Hello, {name}!", <<s>>) >>
  /\ tp_pc' = "L15"
  /\ UNCHANGED <<tp_age, tp_num1, tp_num2, tp_result, tp_choice,
                 fibvars, tivars>>

\* lines 14-18: age = int(input(...)) and its print, or the ValueError
\* message; either way the script goes on to line 21
TPAge(s) ==
  /\ tp_pc = "L15"
  /\ tp_stdin' = Append(tp_stdin, s)
  /\ IF IntParse(s) # <<>>
     THEN /\ tp_age' = IntParse(s)
          /\ tp_out' = tp_out \o
               << Line("How old are you? ", <<>>),
                  Line("Wow, {age} years old!", <<IntStr(IntParse(s)[1])>>) >>
     ELSE /\ tp_age' = tp_age
          /\ tp_out' = tp_out \o
               << Line("How old are you? ", <<>>),
                  Line("That's not a valid number!", <<>>) >>
  /\ tp_pc' = "L21"
  /\ UNCHANGED <<tp_name, tp_num1, tp_num2, tp_result, tp_choice,
                 fibvars, tivars>>

TPNum1Separate(s) ==
  /\ tp_pc = "L21"
  /\ tp_stdin' = Append(tp_stdin, s)
  /\ IF FloatParse(s) # <<>>
     THEN /\ tp_num1' = FloatParse(s)
          /\ tp_out' = tp_out \o
               << Line("\nLet's do some math:", <<>>),
                  Line("Enter first number: ", <<>>) >>
     ELSE /\ tp_num1' = <<0>>
          /\ tp_out' = tp_out \o
               << Line("\nLet's do some math:", <<>>),
                  Line("Enter first number: ", <<>>),
                  Line("Please enter valid numbers!", <<>>) >>
  /\ tp_pc' = "L24"
  /\ UNCHANGED <<tp_name, tp_age, tp_num2, tp_result, tp_choice,
                 fibvars, tivars>>

\* lines 21-23: the heading and num1 = float(input(...)); a ValueError
\* leaves the try block for line 28 and the script goes on to line 31
TPNum1(s) ==
  /\ tp_pc = "L21"
  /\ tp_stdin' = Append(tp_stdin, s)
  /\ IF FloatParse(s) # <<>>
     THEN /\ tp_num1' = FloatParse(s)
          /\ tp_out' = tp_out \o
               << Line("\nLet's do some math:", <<>>),
                  Line("Enter first number: ", <<>>) >>
          /\ tp_pc' = "L24"
     ELSE /\ tp_num1' = tp_num1
          /\ tp_out' = tp_out \o
               << Line("\nLet's do some math:", <<>>),
                  Line("Enter first number: ", <<>>),
                  Line("Please enter valid numbers!", <<>>) >>
          /\ tp_pc' = "L31"
  /\ UNCHANGED <<tp_name, tp_age, tp_num2, tp_result, tp_choice,
                 fibvars, tivars>>

\* lines 24-28: num2 = float(input(...)), result = num1 + num2 and the sum
\* line, or the ValueError message
TPNum2(s) ==
  /\ tp_pc = "L24"
  /\ tp_stdin' = Append(tp_stdin, s)
  /\ IF FloatParse(s) # <<>>
     THEN /\ tp_num2' = FloatParse(s)
          /\ tp_result' = <<tp_num1[1] + FloatParse(s)[1]>>
          /\ tp_out' = tp_out \o
               << Line("Enter second number: ", <<>>),
                  Line("{num1} + {num2} = {result}",
                       << FloatStr(tp_num1[1]), FloatStr(FloatParse(s)[1]),
                          FloatStr(tp_num1[1] + FloatParse(s)[1]) >>) >>
     ELSE /\ tp_num2' = tp_num2
          /\ tp_result' = tp_result
          /\ tp_out' = tp_out \o
               << Line("Enter second number: ", <<>>),
                  Line("Please enter valid numbers!", <<>>) >>
  /\ tp_pc' = "L31"
  /\ UNCHANGED <<tp_name, tp_age, tp_num1, tp_choice, fibvars, tivars>>

\* lines 37-44: the line printed for the choice
ChoiceLine(c) ==
  IF c = <<"1">> THEN Line("You found a mountain!", <<>>)
  ELSE IF c = <<"2">> THEN Line("You found an ocean!", <<>>)
  ELSE IF c = <<"3">> THEN Line("You found a castle!", <<>>)
  ELSE Line("Unknown choice! You got lost...", <<>>)

\* lines 31-47: the menu, choice = input(...), its branch and the two
\* closing lines
TPChoice(s) ==
  /\ tp_pc = "L31"
  /\ tp_stdin' = Append(tp_stdin, s)
  /\ tp_choice' = s
  /\ tp_out' = tp_out \o
       << Line("\nChoose your adventure:", <<>>),
          Line("1. Go left", <<>>),
          Line("2. Go right", <<>>),
          Line("3. Go straight", <<>>),
          Line("Enter your choice (1-3): ", <<>>),
          ChoiceLine(s),
          Line("\nThanks for testing the interactive input system!", <<>>),
          Line("Test completed successfully!", <<>>) >>
  /\ tp_pc' = "done"
  /\ UNCHANGED <<tp_name, tp_age, tp_num1, tp_num2, tp_result,
                 fibvars, tivars>>

NextInput ==
  \/ \E s \in Names : TPName(s)
  \/ \E s \in Inputs : TPAge(s)
  \/ \E s \in Inputs : TPNum1(s)
  \/ \E s \in Inputs : TPNum2(s)
  \/ \E s \in Inputs : TPChoice(s)

\* ------------------------------------------------------- specifications
Init == InitFib /\ InitInteractive /\ InitInput

\* fibonacci.py called up to MaxCalls times
Spec == Init /\ [][NextFib]_vars

\* a call that has started keeps running: Python executes the next line
FairSpec == Spec /\ WF_vars(Body)

SpecInteractive == Init /\ [][NextInteractive]_vars

SpecInput == Init /\ [][NextInput]_vars

\* every prompt of test_input.py is answered: input() returns a line
FairSpecInput == SpecInput /\ WF_vars(NextInput)

\* ------------------------------------------------- claims on fibonacci.py
Fib10 == <<0, 1, 1, 2, 3, 5, 8, 13, 21, 34>>

\* C1: for every returned call with n >= 0, element i (0 <= i < n) of the
\* result is F(i); fibonacci(1) = [0], fibonacci(2) = [0, 1] and
\* fibonacci(10) = [0, 1, 1, 2, 3, 5, 8, 13, 21, 34].
C1_ElementsAreFibonacci ==
  \A c \in DOMAIN calls :
    /\ calls[c].n >= 0 =>
         \A i \in 0..(calls[c].n - 1) :
           /\ (i + 1) \in DOMAIN calls[c].result
           /\ calls[c].result[i + 1] = F(i)
    /\ calls[c].n = 1 => calls[c].result = <<0>>
    /\ calls[c].n = 2 => calls[c].result = <<0, 1>>
    /\ calls[c].n = 10 => calls[c].result = Fib10

C1_Witness == \E c \in DOMAIN calls : calls[c].n = 10

\* C2: for every returned call with n >= 1 the result has length exactly n.
C2_LengthIsN ==
  \A c \in DOMAIN calls : calls[c].n >= 1 => Len(calls[c].result) = calls[c].n

C2_Witness == \E c \in DOMAIN calls : calls[c].n >= 3

\* C3: a call with n <= 0 never enters the loop body and returns the empty
\* sequence.
C3_NonPositiveIsEmpty ==
  /\ (pc # "idle" /\ n <= 0) => (pc \notin {"L6", "L7"} /\ iters = 0)
  /\ \A c \in DOMAIN calls :
       calls[c].n <= 0 => (calls[c].result = <<>> /\ calls[c].iters = 0)

C3_Witness ==
  /\ \E c \in DOMAIN calls : calls[c].n < 0
  /\ \E c \in DOMAIN calls : calls[c].n = 0

\* C4: for every returned call with n >= 2 and every index i, 2 <= i < n,
\* result[i] = result[i-1] + result[i-2] (indices counted from 0).
C4_Recurrence ==
  \A c \in DOMAIN calls :
    calls[c].n >= 2 =>
      \A i \in 2..(calls[c].n - 1) :
        /\ (i + 1) \in DOMAIN calls[c].result
        /\ calls[c].result[i + 1] = calls[c].result[i] + calls[c].result[i - 1]

C4_Witness == \E c \in DOMAIN calls : calls[c].n >= 4

\* C5: any two returned calls with the same n returned identical sequences,
\* whatever calls were made before or between them.
C5_SameArgumentSameResult ==
  \A c \in DOMAIN calls : \A d \in DOMAIN calls :
    calls[c].n = calls[d].n => calls[c].result = calls[d].result

C5_Witness ==
  /\ Len(calls) >= 3
  /\ calls[1].n = calls[3].n
  /\ calls[1].n >= 2
  /\ calls[2].n >= 1
  /\ calls[2].n # calls[1].n

\* C6: every call returns, and it returns after exactly max(n, 0)
\* executions of the loop body.
C6_Total ==
  /\ [](pc = "L8" => iters = Max(n, 0))
  /\ [](\A c \in DOMAIN calls : calls[c].iters = Max(calls[c].n, 0))
  /\ (pc # "idle") ~> (pc = "idle")

C6_Witness ==
  /\ \E c \in DOMAIN calls : calls[c].n < 0
  /\ \E c \in DOMAIN calls : calls[c].n >= 3

\* C7: whenever the loop condition is evaluated, with k = len(fib_list),
\* a = F(k), b = F(k+1) and fib_list = [F(0), ..., F(k-1)]; the first
\* evaluation sees (a, b) = (0, 1) and the empty list; an iteration appends
\* exactly the current a and then sets (a, b) to (old b, old a + old b).
C7_AtTest ==
  pc = "L5" =>
    /\ a = F(Len(fib_list))
    /\ b = F(Len(fib_list) + 1)
    /\ fib_list = FPrefix(Len(fib_list))
    /\ iters = Len(fib_list)
    /\ (iters = 0 => (a = 0 /\ b = 1 /\ fib_list = <<>>))

C7_Iteration ==
  /\ (pc = "L5" /\ pc' = "L6") => UNCHANGED <<fib_list, a, b>>
  /\ (pc = "L6" /\ pc' # "L6") =>
       (fib_list' = Append(fib_list, a) /\ UNCHANGED <<a, b>> /\ pc' = "L7")
  /\ (pc = "L7" /\ pc' # "L7") =>
       (a' = b /\ b' = a + b /\ UNCHANGED fib_list /\ pc' = "L5")

C7_LoopInvariant == []C7_AtTest /\ [][C7_Iteration]_vars

C7_Witness == pc = "L5" /\ Len(fib_list) = 5 /\ n > 5

\* C8: for returned calls with m <= n, fibonacci(m) is the first max(m, 0)
\* elements of fibonacci(n).
C8_Prefix ==
  \A c \in DOMAIN calls : \A d \in DOMAIN calls :
    calls[c].n <= calls[d].n =>
      /\ Max(calls[c].n, 0) <= Len(calls[d].result)
      /\ calls[c].result = SubSeq(calls[d].result, 1, Max(calls[c].n, 0))

C8_Witness ==
  \E c \in DOMAIN calls : \E d \in DOMAIN calls :
    /\ c > d
    /\ calls[c].n >= 3
    /\ calls[c].n < calls[d].n

\* ------------------------------------------- claims on test_interactive.py
\* How many lines of out carry the text t.
Count(out, t) == Cardinality({i \in DOMAIN out : out[i].text = t})

\* The position in ti_stdin of the first age input that int() accepts.
TIFirstParsed ==
  {i \in 2..Len(ti_stdin) :
     /\ IntParse(ti_stdin[i]) # <<>>
     /\ \A j \in 2..(i - 1) : IntParse(ti_stdin[j]) = <<>>}

C9_State ==
  /\ ti_pc # "NameError"
  /\ ti_pc \in {"L6", "L16"} =>
       /\ ti_age = <<>>
       /\ \A i \in 2..Len(ti_stdin) : IntParse(ti_stdin[i]) = <<>>
       /\ Count(ti_out, "Please enter a valid number!") = Len(ti_stdin) - 1
            \/ ti_pc = "L6"
       /\ Count(ti_out, "What's your favorite color? ") = 0
       /\ Count(ti_out, "Summary:") = 0
  /\ ti_pc \in {"L23", "L27", "L31", "done"} =>
       \E i \in TIFirstParsed :
         /\ ti_age = IntParse(ti_stdin[i])
         /\ Len(ti_stdin) = IF ti_pc \in {"L23", "L27"} THEN i ELSE i + 1
         /\ Count(ti_out, "Please enter a valid number!") = i - 2
         /\ Count(ti_out, "Enter your age: ") = i - 1
         /\ ti_pc # "L23" =>
              \E y \in Years : ti_birth_year = <<y - IntParse(ti_stdin[i])[1]>>
         /\ ti_pc = "done" =>
              \E k \in DOMAIN ti_out :
                ti_out[k] = Line("- Age: {age}", <<IntStr(IntParse(ti_stdin[i])[1])>>)

C9_Step ==
  (ti_pc = "L16" /\ ti_stdin' # ti_stdin) =>
    IF IntParse(ti_stdin'[Len(ti_stdin')]) = <<>>
    THEN /\ ti_pc' = "L16"
         /\ ti_out' = ti_out \o << Line("Enter your age: ", <<>>),
                                   Line("Please enter a valid number!", <<>>) >>
    ELSE /\ ti_pc' = "L23"
         /\ ti_age' = IntParse(ti_stdin'[Len(ti_stdin')])

\* C9: the script stays at the age prompt while the inputs fail int(), each
\* failure printing the message and prompting again; the first input that
\* parses ends the loop and is the age used for the birth year and printed
\* in the summary; the colour prompt and the summary are never reached with
\* age unbound.
C9_AgeRetryLoop == []C9_State /\ [][C9_Step]_vars

C9_Witness ==
  /\ ti_pc = "done"
  /\ Len(ti_stdin) = 5
  /\ ti_stdin[2] # ti_stdin[3]
  /\ ti_age = <<0 - 5>>

\* ------------------------------------------------- claims on test_input.py
PromptTexts ==
  << "What's your name? ", "How old are you? ", "Enter first number: ",
     "Enter second number: ", "Enter your choice (1-3): " >>

IsPrompt(l) == \E r \in 1..5 : PromptTexts[r] = l.text

Rank(l) == CHOOSE r \in 1..5 : PromptTexts[r] = l.text

SumText == "{num1} + {num2} = {result}"

C10_State ==
  /\ \A i \in DOMAIN tp_out : \A j \in DOMAIN tp_out :
       (i < j /\ IsPrompt(tp_out[i]) /\ IsPrompt(tp_out[j])) =>
         Rank(tp_out[i]) < Rank(tp_out[j])
  /\ tp_pc \in {"L6", "L15", "L21", "L24", "L31", "done"}
  /\ tp_pc = "done" =>
       /\ tp_out[Len(tp_out)] = Line("Test completed successfully!", <<>>)
       /\ Count(tp_out, "\nLet's do some math:") = 1
       /\ Count(tp_out, "Enter your choice (1-3): ") = 1
  /\ (Len(tp_stdin) >= 2 /\ IntParse(tp_stdin[2]) = <<>>) =>
       /\ Count(tp_out, "That's not a valid number!") = 1
       /\ Count(tp_out, "Wow, {age} years old!") = 0
       /\ tp_pc \in {"L21", "L24", "L31", "done"}
  /\ (Len(tp_stdin) >= 3 /\ FloatParse(tp_stdin[3]) = <<>>) =>
       /\ Count(tp_out, "Enter second number: ") = 0
       /\ Count(tp_out, SumText) = 0
       /\ Count(tp_out, "Please enter valid numbers!") = 1
       /\ tp_pc \in {"L31", "done"}
  /\ Count(tp_out, SumText) > 0 =>
       /\ Len(tp_stdin) >= 4
       /\ FloatParse(tp_stdin[3]) # <<>>
       /\ FloatParse(tp_stdin[4]) # <<>>

\* C10: whatever is typed, test_input.py reaches "Test completed
\* successfully!", asking each prompt at most once and in the order name,
\* age, first number, second number, choice; an age that is not an integer
\* prints the age message and the script goes on; a first number that is
\* not a float means no second prompt, no sum line and exactly one "Please
\* enter valid numbers!"; the sum line appears only when both numbers parsed.
C10_NeverAborts == []C10_State /\ <>(tp_pc = "done")

C10_Witness ==
  /\ tp_pc = "done"
  /\ IntParse(tp_stdin[2]) = <<>>
  /\ FloatParse(tp_stdin[3]) = <<>>
  /\ tp_stdin[3] # <<>>

====
